---- MODULE Spec2Model ----
(***************************************************************************)
(* The on-disk cache of plugin-simplecache (file.go): fileCache.Get,       *)
(* fileCache.Set, the vacuum goroutine, keyPath/keyHash and the            *)
(* reference-counted pathMutex/fileLock registry.                          *)
(*                                                                         *)
(* Time is counted in ticks, TicksPerSec ticks to the second, so that      *)
(* time.Now() can fall between two whole seconds while stored expiries     *)
(* are whole seconds (time.Time.Unix truncates).                           *)
(***************************************************************************)
EXTENDS Integers, Sequences, FiniteSets, TLC

(***************************************************************************)
(* Bounds of the model.                                                    *)
(***************************************************************************)
TicksPerSec == 2
StartTicks == 510
MaxTicks == 1
MaxOpenFiles == 1

(***************************************************************************)
(* Processes: the callers of Get/Set and the one vacuum goroutine.         *)
(***************************************************************************)
Workers == {"w1", "w2"}
VacuumProc == "vacuum"
Procs == Workers \cup {VacuumProc}
NoProc == "nobody"

(***************************************************************************)
(* Keys and path components are sequences of one-character strings.        *)
(***************************************************************************)
Keys == { <<"a", "/", "b">>, <<"a", "-", "b">> }
BasePath == << <<"t", "m", "p">> >>
Payloads == { <<1, 2>>, <<3>> }
Expiries == { 1, TicksPerSec }

Ord(c) ==
    CASE c = "a" -> 97 [] c = "b" -> 98 [] c = "/" -> 47 [] c = "-" -> 45
      [] c = ":" -> 58 [] c = "_" -> 95 [] c = "c" -> 99

HexDigits == <<"0", "1", "2", "3", "4", "5", "6", "7",
               "8", "9", "a", "b", "c", "d", "e", "f">>

\* hex.EncodeToString of a one-byte slice: two lower-case hex digits.
HexEncode(byte) == << HexDigits[(byte \div 16) + 1], HexDigits[(byte % 16) + 1] >>

(***************************************************************************)
(* crc32.Checksum(data, crc32.IEEETable): the reflected CRC-32 with        *)
(* polynomial 0xEDB88320, computed bit by bit on 32-bit words held as      *)
(* sequences of bits, least significant bit first.                         *)
(***************************************************************************)
IEEEPoly == <<0, 0, 0, 0, 0, 1, 0, 0, 1, 1, 0, 0, 0, 0, 0, 1,
              0, 0, 0, 1, 1, 1, 0, 1, 1, 0, 1, 1, 0, 1, 1, 1>>

XorBits(x, y) == [i \in 1..32 |-> (x[i] + y[i]) % 2]

RECURSIVE Pow2(_)
Pow2(n) == IF n = 0 THEN 1 ELSE 2 * Pow2(n - 1)

ByteBits(n) == [i \in 1..32 |-> IF i <= 8 THEN (n \div Pow2(i - 1)) % 2 ELSE 0]

ShiftRight1(x) == [i \in 1..32 |-> IF i < 32 THEN x[i + 1] ELSE 0]

RECURSIVE CrcShift(_, _)
CrcShift(x, n) ==
    IF n = 0 THEN x
    ELSE CrcShift(IF x[1] = 1 THEN XorBits(ShiftRight1(x), IEEEPoly)
                  ELSE ShiftRight1(x), n - 1)

RECURSIVE CrcUpdate(_, _)
CrcUpdate(x, data) ==
    IF data = <<>> THEN x
    ELSE CrcUpdate(CrcShift(XorBits(x, ByteBits(Ord(Head(data)))), 8), Tail(data))

Checksum(data) ==
    LET ones == [i \in 1..32 |-> 1]
    IN  XorBits(CrcUpdate(ones, data), ones)

RECURSIVE BitsValue(_, _, _)
BitsValue(x, lo, hi) ==
    IF lo > hi THEN 0 ELSE x[lo] + 2 * BitsValue(x, lo + 1, hi)

\* keyHash: the checksum's four bytes in little-endian order.
keyHash(key) ==
    LET h == Checksum(key)
    IN  [i \in 1..4 |-> BitsValue(h, 8 * (i - 1) + 1, 8 * i)]

\* strings.NewReplacer("/", "-", ":", "_").Replace
Replace(key) ==
    [i \in 1..Len(key) |->
        IF key[i] = "/" THEN "-" ELSE IF key[i] = ":" THEN "_" ELSE key[i]]

\* keyPath: base, four hex-encoded hash bytes, the sanitized key.
keyPath(path, key) ==
    LET h == keyHash(key)
    IN  path \o << HexEncode(h[1]), HexEncode(h[2]),
                   HexEncode(h[3]), HexEncode(h[4]), Replace(key) >>

\* filepath.Base and filepath.Dir of a path of components.
Base(path) == path[Len(path)]
Dir(path) == SubSeq(path, 1, Len(path) - 1)

KeyPaths == [k \in Keys |-> keyPath(BasePath, k)]
Paths == { KeyPaths[k] : k \in Keys }
LockNames == Keys \cup { Base(p) : p \in Paths }

(***************************************************************************)
(* The entry codec: 8 bytes of little-endian Unix seconds, then payload.   *)
(***************************************************************************)
RECURSIVE PutUint(_, _)
PutUint(n, width) ==
    IF width = 0 THEN <<>> ELSE <<n % 256>> \o PutUint(n \div 256, width - 1)

RECURSIVE Uint(_)
Uint(b) == IF b = <<>> THEN 0 ELSE Head(b) + 256 * Uint(Tail(b))

PutUint64(n) == PutUint(n, 8)
Uint64(b) == Uint(b)

\* time.Now().Add(expiry).Unix(): whole seconds, the fraction dropped.
UnixOf(ticks) == ticks \div TicksPerSec

\* time.Unix(sec, 0).Before(t) for t given in ticks.
Before(sec, ticks) == sec * TicksPerSec < ticks

(***************************************************************************)
(* Directory entries.  A regular file carries its bytes.                   *)
(***************************************************************************)
NoFile == [kind |-> "none", data |-> <<>>]
DirEntry == [kind |-> "dir", data |-> <<>>]
File(bytes) == [kind |-> "file", data |-> bytes]

\* A write of bytes at an offset of an open file: bytes beyond the written
\* range stay as they were (the file is never truncated).
WriteAt(data, off, bytes) ==
    LET n == IF Len(data) > off + Len(bytes) THEN Len(data) ELSE off + Len(bytes)
    IN  [i \in 1..n |->
            IF i > off /\ i <= off + Len(bytes) THEN bytes[i - off]
            ELSE IF i <= Len(data) THEN data[i] ELSE 0]

\* b[:8] of the slice ioutil.ReadFile returns.  Its capacity is at least
\* 512, so the slice expression succeeds on a shorter read and yields the
\* bytes read followed by zeros.
First8(b) == [i \in 1..8 |-> IF i <= Len(b) THEN b[i] ELSE 0]

(***************************************************************************)
(* The lock registry: pathMutex.lock maps a name to a handle; 0 stands for *)
(* "no entry".  A fileLock has its reference count, the name its cleanup   *)
(* closure captured, and the state of its sync.RWMutex.                    *)
(***************************************************************************)
HandleIds == 1..(Cardinality(Procs) + Cardinality(LockNames))
NoHandle == 0
FreshLock(name) == [ref |-> 1, path |-> name, readers |-> 0, writer |-> FALSE]
ZeroLock == [ref |-> 0, path |-> <<>>, readers |-> 0, writer |-> FALSE]

NoRet == [kind |-> "none", data |-> <<>>]
Ret(kind, data) == [kind |-> kind, data |-> data]
NoSet == [key |-> <<>>, val |-> <<>>]
NoOp == [name |-> "none", key |-> <<>>, val |-> <<>>, expiry |-> 0,
         b |-> <<>>, f |-> "closed", timestamp |-> 0, after |-> NoSet,
         ret |-> NoRet]

VARIABLES
    now,        \* the wall clock, in ticks
    files,      \* path -> directory entry
    dirs,       \* the shard directories that exist
    regMu,      \* pathMutex.mu: the process holding it, or NoProc
    lock,       \* pathMutex.lock: name -> handle
    handle,     \* the fileLock objects
    pc,         \* each process's position
    mu,         \* each process's local `mu`
    op,         \* each worker's call: arguments, locals and result
    vac,        \* the vacuum goroutine's walk and locals
    lastSet,    \* history: the Set that has just succeeded, if still the latest
    fc          \* newFileCache: the base path, its result, the vacuums started

vars == <<now, files, dirs, regMu, lock, handle, pc, mu, op, vac, lastSet, fc>>

NoPath == <<>>
IdleVac == [dirs |-> <<>>, names |-> <<>>, path |-> NoPath, t |-> <<>>,
            open |-> 0, started |-> 0]

TypeOK ==
    /\ now \in StartTicks..(StartTicks + MaxTicks)
    /\ DOMAIN files = Paths
    /\ dirs \subseteq { Dir(p) : p \in Paths }
    /\ regMu \in Procs \cup {NoProc}
    /\ \A n \in LockNames : lock[n] \in HandleIds \cup {NoHandle}
    /\ \A w \in Workers : op[w].name \in {"none", "Get", "Set"}

\* A process is inside a call of Get or Set, or inside a vacuum pass.
Busy(p) == IF p = VacuumProc THEN pc[p] # "Timer" ELSE pc[p] # "idle"

(***************************************************************************)
(* pathMutex.MutexAt and the cleanup closure, each under pathMutex.mu.     *)
(***************************************************************************)
\* The name a process asks the registry for.
NameOf(p) == IF p = VacuumProc THEN Base(vac.path) ELSE op[p].key

\* The statement that follows `mu := c.pm.MutexAt(...)`.
AfterMutexAt(p) ==
    IF p # VacuumProc /\ op[p].name = "Get" THEN "RLock" ELSE "Lock"

FreeHandle ==
    CHOOSE h \in HandleIds :
        /\ \A n \in LockNames : lock[n] # h
        /\ \A q \in Procs : mu[q] # h
        /\ \A g \in HandleIds :
              ((\A n \in LockNames : lock[n] # g) /\ (\A q \in Procs : mu[q] # g))
                  => h <= g

\* m.mu.Lock() at the top of MutexAt
MutexAtEnter(p) ==
    /\ pc[p] = "MutexAt"
    /\ regMu = NoProc
    /\ regMu' = p
    /\ pc' = [pc EXCEPT ![p] = "MutexAtBody"]
    /\ UNCHANGED <<now, files, dirs, lock, handle, mu, op, vac, lastSet, fc>>

\* Mutation of MutexAt: the deferred m.mu.Unlock() left out.
MutexAtKeepsMu(p) ==
    /\ pc[p] = "MutexAtBody"
    /\ regMu = p
    /\ LET name == NameOf(p) IN
         IF lock[name] # NoHandle
         THEN /\ handle' = [handle EXCEPT ![lock[name]].ref = @ + 1]
              /\ mu' = [mu EXCEPT ![p] = lock[name]]
              /\ lock' = lock
         ELSE /\ handle' = [handle EXCEPT ![FreeHandle] = FreshLock(name)]
              /\ lock' = [lock EXCEPT ![name] = FreeHandle]
              /\ mu' = [mu EXCEPT ![p] = FreeHandle]
    /\ regMu' = regMu
    /\ pc' = [pc EXCEPT ![p] = AfterMutexAt(p)]
    /\ UNCHANGED <<now, files, dirs, op, vac, lastSet, fc>>

\* lookup-or-create, reference count, deferred m.mu.Unlock()
MutexAt(p) ==
    /\ pc[p] = "MutexAtBody"
    /\ regMu = p
    /\ LET name == NameOf(p) IN
         IF lock[name] # NoHandle
         THEN /\ handle' = [handle EXCEPT ![lock[name]].ref = @ + 1]
              /\ mu' = [mu EXCEPT ![p] = lock[name]]
              /\ lock' = lock
         ELSE /\ handle' = [handle EXCEPT ![FreeHandle] = FreshLock(name)]
              /\ lock' = [lock EXCEPT ![name] = FreeHandle]
              /\ mu' = [mu EXCEPT ![p] = FreeHandle]
    /\ regMu' = NoProc
    /\ pc' = [pc EXCEPT ![p] = AfterMutexAt(p)]
    /\ UNCHANGED <<now, files, dirs, op, vac, lastSet, fc>>

\* fileLock.RLock
RLock(p) ==
    /\ pc[p] = "RLock"
    /\ ~handle[mu[p]].writer
    /\ handle' = [handle EXCEPT ![mu[p]].readers = @ + 1]
    /\ pc' = [pc EXCEPT ![p] = "Stat"]
    /\ UNCHANGED <<now, files, dirs, regMu, lock, mu, op, vac, lastSet, fc>>

\* fileLock.Lock, first half: sync.RWMutex.Lock takes the writers' mutex and
\* announces the writer, so that no new reader gets in.
Lock(p) ==
    /\ pc[p] = "Lock"
    /\ ~handle[mu[p]].writer
    /\ handle' = [handle EXCEPT ![mu[p]].writer = TRUE]
    /\ pc' = [pc EXCEPT ![p] = "LockWait"]
    /\ UNCHANGED <<now, files, dirs, regMu, lock, mu, op, vac, lastSet, fc>>

\* Mutation of LockWait: a writer that does not wait for the readers to leave.
LockWaitPastReaders(p) ==
    /\ pc[p] = "LockWait"
    /\ pc' = [pc EXCEPT ![p] = IF p = VacuumProc THEN "Open" ELSE "MkdirAll"]
    /\ UNCHANGED <<now, files, dirs, regMu, lock, handle, mu, op, vac, lastSet, fc>>

\* fileLock.Lock, second half: the readers that were in have left and
\* sync.RWMutex.Lock returns.
LockWait(p) ==
    /\ pc[p] = "LockWait"
    /\ handle[mu[p]].readers = 0
    /\ pc' = [pc EXCEPT ![p] = IF p = VacuumProc THEN "Open" ELSE "MkdirAll"]
    /\ UNCHANGED <<now, files, dirs, regMu, lock, handle, mu, op, vac, lastSet, fc>>

\* Mutation of RUnlock: l.mu.RUnlock() left out, cleanup alone is called.
RUnlockKeepsReader(p) ==
    /\ pc[p] = "RUnlock"
    /\ pc' = [pc EXCEPT ![p] = "Cleanup"]
    /\ UNCHANGED <<now, files, dirs, regMu, lock, handle, mu, op, vac, lastSet, fc>>

\* fileLock.RUnlock, up to the call of cleanup
RUnlock(p) ==
    /\ pc[p] = "RUnlock"
    /\ handle' = [handle EXCEPT ![mu[p]].readers = @ - 1]
    /\ pc' = [pc EXCEPT ![p] = "Cleanup"]
    /\ UNCHANGED <<now, files, dirs, regMu, lock, mu, op, vac, lastSet, fc>>

\* fileLock.Unlock, up to the call of cleanup
Unlock(p) ==
    /\ pc[p] = "Unlock"
    /\ handle' = [handle EXCEPT ![mu[p]].writer = FALSE]
    /\ pc' = [pc EXCEPT ![p] = "Cleanup"]
    /\ UNCHANGED <<now, files, dirs, regMu, lock, mu, op, vac, lastSet, fc>>

\* m.mu.Lock() at the top of the cleanup closure
CleanupEnter(p) ==
    /\ pc[p] = "Cleanup"
    /\ regMu = NoProc
    /\ regMu' = p
    /\ pc' = [pc EXCEPT ![p] = "CleanupBody"]
    /\ UNCHANGED <<now, files, dirs, lock, handle, mu, op, vac, lastSet, fc>>

\* Mutation of LastRef: the entry is deleted at every release.
LastRefAlways(h) == handle[h].ref - 1 >= 0
\* Mutation of LastRef: the entry is never deleted.
LastRefNever(h) == handle[h].ref - 1 < 0

\* Whether the cleanup closure deletes the registry entry.
LastRef(h) == handle[h].ref - 1 = 0

\* fl.ref--, delete at zero, deferred m.mu.Unlock(); then the caller returns.
Cleanup(p) ==
    /\ pc[p] = "CleanupBody"
    /\ regMu = p
    /\ LET h == mu[p] IN
         /\ handle' = IF LastRef(h) /\ \A q \in Procs \ {p} : mu[q] # h
                       THEN [handle EXCEPT ![h] = ZeroLock]
                       ELSE [handle EXCEPT ![h].ref = @ - 1]
         /\ lock' = IF LastRef(h) THEN [lock EXCEPT ![handle[h].path] = NoHandle]
                    ELSE lock
    /\ regMu' = NoProc
    /\ mu' = [mu EXCEPT ![p] = NoHandle]
    /\ IF p = VacuumProc
       THEN /\ pc' = [pc EXCEPT ![p] = "Walk"]
            /\ vac' = [vac EXCEPT !.path = NoPath, !.t = <<>>]
            /\ op' = op
       ELSE /\ pc' = [pc EXCEPT ![p] = "idle"]
            /\ op' = [op EXCEPT ![p] = NoOp]
            /\ vac' = vac
    /\ UNCHANGED <<now, files, dirs, lastSet, fc>>

(***************************************************************************)
(* os.Remove of a path: the name goes; a descriptor another process has    *)
(* open on the file keeps the unlinked file, out of reach of the store.    *)
(***************************************************************************)
Unlinked(o, path) ==
    IF o.f = "linked" /\ KeyPaths[o.key] = path THEN [o EXCEPT !.f = "orphan"] ELSE o

RemoveFile(path) == [files EXCEPT ![path] = NoFile]

(***************************************************************************)
(* fileCache.Get                                                           *)
(***************************************************************************)
\* A caller enters Get(key).
GetCall(w, key) ==
    /\ pc[w] = "idle"
    /\ op' = [op EXCEPT ![w] = [NoOp EXCEPT !.name = "Get", !.key = key,
                                !.after = IF lastSet.key = key THEN lastSet ELSE NoSet]]
    /\ lastSet' = NoSet
    /\ pc' = [pc EXCEPT ![w] = "MutexAt"]
    /\ UNCHANGED <<now, files, dirs, regMu, lock, handle, mu, vac, fc>>

\* Mutation of StatMisses: the info.IsDir() test left out.
StatMissesNoDir(entry) == entry.kind = "none"

\* Whether os.Stat sends Get to its cache-miss return.
StatMisses(entry) == entry.kind = "none" \/ entry.kind = "dir"

\* os.Stat(p); err != nil || info.IsDir()
GetStat(w) ==
    /\ pc[w] = "Stat"
    /\ op[w].name = "Get"
    /\ IF StatMisses(files[KeyPaths[op[w].key]])
       THEN /\ op' = [op EXCEPT ![w].ret = Ret("miss", <<>>)]
            /\ pc' = [pc EXCEPT ![w] = "RUnlock"]
       ELSE /\ op' = op
            /\ pc' = [pc EXCEPT ![w] = "ReadFile"]
    /\ UNCHANGED <<now, files, dirs, regMu, lock, handle, mu, vac, lastSet, fc>>

\* ioutil.ReadFile(p)
GetReadFile(w) ==
    /\ pc[w] = "ReadFile"
    /\ LET entry == files[KeyPaths[op[w].key]] IN
         IF entry.kind = "file"
         THEN /\ op' = [op EXCEPT ![w].b = entry.data]
              /\ pc' = [pc EXCEPT ![w] = "Expires"]
         ELSE /\ op' = [op EXCEPT ![w].ret = Ret("error", <<>>)]
              /\ pc' = [pc EXCEPT ![w] = "RUnlock"]
    /\ UNCHANGED <<now, files, dirs, regMu, lock, handle, mu, vac, lastSet, fc>>

\* Mutation of GetExpired: the entry is served for one second too long.
GetExpiredLate(b, t) == Before(Uint64(First8(b)) + 1, t)

\* Get's freshness test: expires.Before(time.Now())
GetExpired(b, t) == Before(Uint64(First8(b)), t)

\* The expiry test, and the return of b[8:], which panics when len(b) < 8.
GetExpires(w) ==
    /\ pc[w] = "Expires"
    /\ LET b == op[w].b IN
         IF GetExpired(b, now)
         THEN /\ pc' = [pc EXCEPT ![w] = "Remove"]
              /\ op' = op
         ELSE /\ pc' = [pc EXCEPT ![w] = "RUnlock"]
              /\ op' = [op EXCEPT ![w].ret =
                            IF Len(b) < 8 THEN Ret("panic", <<>>)
                            ELSE Ret("hit", SubSeq(b, 9, Len(b)))]
    /\ UNCHANGED <<now, files, dirs, regMu, lock, handle, mu, vac, lastSet, fc>>

\* _ = os.Remove(p); return nil, errCacheMiss
GetRemove(w) ==
    /\ pc[w] = "Remove"
    /\ LET path == KeyPaths[op[w].key] IN
         /\ files' = RemoveFile(path)
         /\ op' = [v \in Workers |->
                     IF v = w THEN [op[w] EXCEPT !.ret = Ret("miss", <<>>)]
                     ELSE Unlinked(op[v], path)]
    /\ pc' = [pc EXCEPT ![w] = "RUnlock"]
    /\ UNCHANGED <<now, dirs, regMu, lock, handle, mu, vac, lastSet, fc>>

(***************************************************************************)
(* fileCache.Set                                                           *)
(***************************************************************************)
\* A caller enters Set(key, val, expiry).
SetCall(w, key, val, expiry) ==
    /\ pc[w] = "idle"
    /\ op' = [op EXCEPT ![w] = [NoOp EXCEPT !.name = "Set", !.key = key,
                                !.val = val, !.expiry = expiry]]
    /\ lastSet' = NoSet
    /\ pc' = [pc EXCEPT ![w] = "MutexAt"]
    /\ UNCHANGED <<now, files, dirs, regMu, lock, handle, mu, vac, fc>>

\* os.MkdirAll(filepath.Dir(p), 0700)
SetMkdirAll(w) ==
    /\ pc[w] = "MkdirAll"
    /\ dirs' = dirs \cup {Dir(KeyPaths[op[w].key])}
    /\ pc' = [pc EXCEPT ![w] = "OpenFile"]
    /\ UNCHANGED <<now, files, regMu, lock, handle, mu, op, vac, lastSet, fc>>

\* What os.OpenFile(p, O_RDWR|O_CREATE, 0600) leaves at the path: a new
\* empty file, or the file that was there with its bytes.
Opened(entry) == IF entry.kind = "none" THEN File(<<>>) ELSE entry

\* os.OpenFile; a directory at the path cannot be opened for writing.
SetOpenFile(w) ==
    /\ pc[w] = "OpenFile"
    /\ LET path == KeyPaths[op[w].key] IN
         IF files[path].kind = "dir"
         THEN /\ op' = [op EXCEPT ![w].ret = Ret("error", <<>>)]
              /\ pc' = [pc EXCEPT ![w] = "Unlock"]
              /\ files' = files
         ELSE /\ files' = [files EXCEPT ![path] = Opened(files[path])]
              /\ op' = [op EXCEPT ![w].f = "linked"]
              /\ pc' = [pc EXCEPT ![w] = "Timestamp"]
    /\ UNCHANGED <<now, dirs, regMu, lock, handle, mu, vac, lastSet, fc>>

\* timestamp := uint64(time.Now().Add(expiry).Unix())
SetTimestamp(w) ==
    /\ pc[w] = "Timestamp"
    /\ op' = [op EXCEPT ![w].timestamp = UnixOf(now + op[w].expiry)]
    /\ pc' = [pc EXCEPT ![w] = "WriteT"]
    /\ UNCHANGED <<now, files, dirs, regMu, lock, handle, mu, vac, lastSet, fc>>

\* f.Write at an offset of the worker's descriptor.
FileWrite(w, off, bytes) ==
    LET path == KeyPaths[op[w].key] IN
    IF op[w].f = "linked"
    THEN [files EXCEPT ![path] = File(WriteAt(files[path].data, off, bytes))]
    ELSE files

\* f.Write(t[:])
SetWriteT(w) ==
    /\ pc[w] = "WriteT"
    /\ files' = FileWrite(w, 0, PutUint64(op[w].timestamp))
    /\ pc' = [pc EXCEPT ![w] = "WriteVal"]
    /\ UNCHANGED <<now, dirs, regMu, lock, handle, mu, op, vac, lastSet, fc>>

\* f.Write(val); return nil; the deferred f.Close()
SetWriteVal(w) ==
    /\ pc[w] = "WriteVal"
    /\ files' = FileWrite(w, 8, op[w].val)
    /\ op' = [op EXCEPT ![w].ret = Ret("ok", <<>>), ![w].f = "closed"]
    /\ lastSet' = IF \A q \in Procs \ {w} : ~Busy(q)
                  THEN [key |-> op[w].key, val |-> op[w].val] ELSE NoSet
    /\ pc' = [pc EXCEPT ![w] = "Unlock"]
    /\ UNCHANGED <<now, dirs, regMu, lock, handle, mu, vac, fc>>

(***************************************************************************)
(* fileCache.vacuum: on every tick of the ticker filepath.Walk visits the  *)
(* tree in lexical order, reading each directory's names when it enters    *)
(* the directory and calling lstat on each name as it comes to it.         *)
(***************************************************************************)
HexValue(c) == (CHOOSE i \in 1..16 : HexDigits[i] = c) - 1

\* The shard bytes a directory's four hex components spell.
DirBytes(d) ==
    [i \in 1..4 |-> 16 * HexValue(d[Len(BasePath) + i][1])
                      + HexValue(d[Len(BasePath) + i][2])]

RECURSIVE LexLess(_, _)
LexLess(x, y) ==
    /\ x # <<>>
    /\ \/ Head(x) < Head(y)
       \/ Head(x) = Head(y) /\ LexLess(Tail(x), Tail(y))

RECURSIVE SortDirs(_)
SortDirs(S) ==
    IF S = {} THEN <<>>
    ELSE LET m == CHOOSE d \in S : \A e \in S \ {d} : LexLess(DirBytes(d), DirBytes(e))
         IN  <<m>> \o SortDirs(S \ {m})

\* The names readDirNames finds in a shard directory.  The model's keys
\* fall into different shard directories, one name each at most.
RECURSIVE SeqOf(_)
SeqOf(S) ==
    IF S = {} THEN <<>>
    ELSE LET m == CHOOSE x \in S : TRUE IN <<m>> \o SeqOf(S \ {m})

ReadDirNames(d) == SeqOf({ p \in Paths : Dir(p) = d /\ files[p].kind # "none" })

\* The ticker fires: Walk starts from the base directory.
VacuumTick ==
    /\ pc[VacuumProc] = "Timer"
    /\ vac' = [vac EXCEPT !.dirs = SortDirs(dirs), !.started = now]
    /\ lastSet' = NoSet
    /\ pc' = [pc EXCEPT ![VacuumProc] = "Walk"]
    /\ UNCHANGED <<now, files, dirs, regMu, lock, handle, mu, op, fc>>

\* Walk enters the next shard directory and reads its names.
VacuumReadDir ==
    /\ pc[VacuumProc] = "Walk"
    /\ vac.names = <<>>
    /\ vac.dirs # <<>>
    /\ vac' = [vac EXCEPT !.names = ReadDirNames(Head(vac.dirs)),
                          !.dirs = Tail(vac.dirs)]
    /\ UNCHANGED <<now, files, dirs, regMu, lock, handle, pc, mu, op, lastSet, fc>>

\* Where the walk goes after lstat of the next name and the first two cases
\* of the callback: an lstat error is returned and ends the walk, a
\* directory is passed over, a file gets the per-file step.
AfterLstat(entry) ==
    CASE entry.kind = "none" -> "Timer"
      [] entry.kind = "dir" -> "Walk"
      [] OTHER -> "MutexAt"

VacuumLstat ==
    /\ pc[VacuumProc] = "Walk"
    /\ vac.names # <<>>
    /\ LET path == Head(vac.names)
           next == AfterLstat(files[path])
       IN  /\ pc' = [pc EXCEPT ![VacuumProc] = next]
           /\ vac' = CASE next = "Timer" ->
                            [vac EXCEPT !.dirs = <<>>, !.names = <<>>, !.started = 0]
                       [] next = "Walk" -> [vac EXCEPT !.names = Tail(vac.names)]
                       [] OTHER -> [vac EXCEPT !.names = Tail(vac.names), !.path = path]
    /\ lastSet' = NoSet
    /\ UNCHANGED <<now, files, dirs, regMu, lock, handle, mu, op, fc>>

\* Walk has nothing left: the pass is over, back to the ticker.
VacuumDone ==
    /\ pc[VacuumProc] = "Walk"
    /\ vac.names = <<>>
    /\ vac.dirs = <<>>
    /\ vac' = [vac EXCEPT !.started = 0]
    /\ pc' = [pc EXCEPT ![VacuumProc] = "Timer"]
    /\ UNCHANGED <<now, files, dirs, regMu, lock, handle, mu, op, lastSet, fc>>

\* What os.Open and f.Read(t[:]) give the per-file step: "skip" when the
\* file cannot be opened, "leak" when Read returns an error with n # 8 (an
\* empty file: 0, io.EOF) and the step returns before f.Close, "read" when
\* the step goes on with t, the bytes read followed by zeros.
HeaderRead(entry) ==
    CASE entry.kind # "file" -> "skip"
      [] Len(entry.data) = 0 -> "leak"
      [] OTHER -> "read"

\* os.Open, f.Read(t[:]), f.Close()
VacuumOpen ==
    /\ pc[VacuumProc] = "Open"
    /\ LET entry == files[vac.path]
           r == HeaderRead(entry)
       IN  /\ r = "leak" => vac.open < MaxOpenFiles
           /\ vac' = CASE r = "skip" -> vac
                       [] r = "leak" -> [vac EXCEPT !.open = @ + 1]
                       [] OTHER -> [vac EXCEPT !.t = First8(entry.data)]
           /\ pc' = [pc EXCEPT ![VacuumProc] = IF r = "read" THEN "Expires" ELSE "Unlock"]
    /\ UNCHANGED <<now, files, dirs, regMu, lock, handle, mu, op, lastSet, fc>>

\* Mutation of VacuumExpired: the negation of the test left out.
VacuumExpiredInverted(t, ticks) == ~Before(Uint64(t), ticks)

\* The vacuum's test: the file goes unless !expires.Before(time.Now()).
VacuumExpired(t, ticks) == Before(Uint64(t), ticks)

VacuumExpires ==
    /\ pc[VacuumProc] = "Expires"
    /\ pc' = [pc EXCEPT ![VacuumProc] =
                 IF VacuumExpired(vac.t, now) THEN "Remove" ELSE "Unlock"]
    /\ UNCHANGED <<now, files, dirs, regMu, lock, handle, mu, op, vac, lastSet, fc>>

\* _ = os.Remove(path)
VacuumRemove ==
    /\ pc[VacuumProc] = "Remove"
    /\ files' = RemoveFile(vac.path)
    /\ op' = [v \in Workers |-> Unlinked(op[v], vac.path)]
    /\ pc' = [pc EXCEPT ![VacuumProc] = "Unlock"]
    /\ UNCHANGED <<now, dirs, regMu, lock, handle, mu, vac, lastSet, fc>>

\* The runtime's finalizer closes a descriptor the vacuum left open.
Finalize ==
    /\ vac.open > 0
    /\ vac' = [vac EXCEPT !.open = @ - 1]
    /\ UNCHANGED <<now, files, dirs, regMu, lock, handle, pc, mu, op, lastSet, fc>>

\* The wall clock advances.
Tick ==
    /\ now < StartTicks + MaxTicks
    /\ now' = now + 1
    /\ UNCHANGED <<files, dirs, regMu, lock, handle, pc, mu, op, vac, lastSet, fc>>

(***************************************************************************)
(* newFileCache(path, vacuum)                                              *)
(***************************************************************************)
\* The base path is a directory, the store was returned, its vacuum runs.
Constructed == [base |-> "dir", result |-> "ok", vacuums |-> 1]

\* Mutation of NewResult: the info.IsDir() test left out.
NewResultNoDirCheck(base) ==
    IF base = "none" THEN "invalid cache path" ELSE "ok"

\* What newFileCache returns for what os.Stat finds at the base path.
NewResult(base) ==
    CASE base = "none" -> "invalid cache path"
      [] base = "file" -> "path must be a directory"
      [] OTHER -> "ok"

\* os.Stat, the IsDir test, and on success `go fc.vacuum(vacuum)`.
NewFileCache ==
    /\ fc.result = "none"
    /\ LET r == NewResult(fc.base) IN
         /\ fc' = [fc EXCEPT !.result = r,
                             !.vacuums = IF r = "ok" THEN @ + 1 ELSE @]
         /\ pc' = IF r = "ok" THEN [pc EXCEPT ![VacuumProc] = "Timer"] ELSE pc
    /\ UNCHANGED <<now, files, dirs, regMu, lock, handle, mu, op, vac, lastSet>>

(***************************************************************************)
(* The specifications.                                                     *)
(***************************************************************************)
InitProcs ==
    /\ now = StartTicks
    /\ regMu = NoProc
    /\ lock = [n \in LockNames |-> NoHandle]
    /\ handle = [h \in HandleIds |-> ZeroLock]
    /\ pc = [p \in Procs |-> IF p = VacuumProc THEN "Timer" ELSE "idle"]
    /\ mu = [p \in Procs |-> NoHandle]
    /\ op = [w \in Workers |-> NoOp]
    /\ vac = IdleVac
    /\ lastSet = NoSet
    /\ fc = Constructed

\* newFileCache on an empty base directory.
Init ==
    /\ InitProcs
    /\ files = [p \in Paths |-> NoFile]
    /\ dirs = {}

\* The steps of the calls in progress and of the vacuum's pass.
Moves ==
    \/ \E p \in Procs : MutexAtEnter(p)
    \/ \E p \in Procs : MutexAt(p)
    \/ \E p \in Procs : RLock(p)
    \/ \E p \in Procs : Lock(p)
    \/ \E p \in Procs : LockWait(p)
    \/ \E p \in Procs : RUnlock(p)
    \/ \E p \in Procs : Unlock(p)
    \/ \E p \in Procs : CleanupEnter(p)
    \/ \E p \in Procs : Cleanup(p)
    \/ \E w \in Workers : GetStat(w)
    \/ \E w \in Workers : GetReadFile(w)
    \/ \E w \in Workers : GetExpires(w)
    \/ \E w \in Workers : GetRemove(w)
    \/ \E w \in Workers : SetMkdirAll(w)
    \/ \E w \in Workers : SetOpenFile(w)
    \/ \E w \in Workers : SetTimestamp(w)
    \/ \E w \in Workers : SetWriteT(w)
    \/ \E w \in Workers : SetWriteVal(w)
    \/ VacuumReadDir
    \/ VacuumLstat
    \/ VacuumDone
    \/ VacuumOpen
    \/ VacuumExpires
    \/ VacuumRemove
    \/ Finalize

Steps ==
    \/ Moves
    \/ Tick

\* Concurrent callers read every key and store one payload, with a
\* sub-second expiry, under the key whose name the sanitizer changes.
Next ==
    \/ \E w \in Workers, k \in Keys : GetCall(w, k)
    \/ \E w \in Workers : SetCall(w, <<"a", "/", "b">>, <<3>>, 1)
    \/ VacuumTick
    \/ Steps

Spec == Init /\ [][Next]_vars

(***************************************************************************)
(* The store used by one caller at a time: a Get, a Set or a whole vacuum  *)
(* pass runs to its end before the next begins.  The base directory may    *)
(* hold an entry the store did not write (a short file, a directory).      *)
(***************************************************************************)
Sequential == Cardinality({ p \in Procs : Busy(p) }) <= 1
Quiet == \A p \in Procs : ~Busy(p)

SeqGetCall(w, key) == Quiet /\ GetCall(w, key)
SeqSetCall(w, key, val, expiry) == Quiet /\ SetCall(w, key, val, expiry)
SeqVacuumTick == Quiet /\ VacuumTick

ForeignEntries == { DirEntry, File(<<>>), File(<<1>>), File(<<0, 2>>) }

InitSeq ==
    /\ InitProcs
    /\ \E p \in Paths, e \in ForeignEntries \cup {NoFile} :
           files = [q \in Paths |-> IF q = p THEN e ELSE NoFile]
    /\ dirs = { Dir(p) : p \in { q \in Paths : files[q].kind # "none" } }

NextSeq ==
    \/ \E w \in Workers, k \in Keys : SeqGetCall(w, k)
    \/ \E w \in Workers, k \in Keys, v \in Payloads, e \in Expiries :
          SeqSetCall(w, k, v, e)
    \/ SeqVacuumTick
    \/ Steps

SpecSeq == InitSeq /\ [][NextSeq]_vars

(***************************************************************************)
(* The concurrent callers and the vacuum on a base directory that already  *)
(* holds, from an earlier run, an entry under each key: an expired one     *)
(* under the key whose name the sanitizer changes, a fresh one under the   *)
(* other.                                                                  *)
(***************************************************************************)
InitWalk ==
    /\ InitProcs
    /\ files = [p \in Paths |->
                  IF p = KeyPaths[<<"a", "/", "b">>]
                  THEN File(PutUint64(1) \o <<3>>)
                  ELSE File(PutUint64(StartTicks) \o <<1, 2>>)]
    /\ dirs = { Dir(p) : p \in Paths }

SpecWalk == InitWalk /\ [][Next]_vars

(***************************************************************************)
(* Scheduling.  Every goroutine that can take a step of its call, or of    *)
(* the vacuum's pass, eventually takes one, and the garbage collector      *)
(* eventually runs a pending finalizer.  The steps that wait for a mutex   *)
(* are strongly fair: sync.Mutex hands the mutex to a waiter that has      *)
(* starved (pathMutex.mu, and the writers' mutex inside sync.RWMutex), and *)
(* RWMutex.Unlock lets in the readers that wait before the next writer.    *)
(* The callers contend for one key, the one whose registry name is also    *)
(* the name the vacuum locks for its file, within one tick of the clock:   *)
(* the entries found are expired, the entries stored are fresh.            *)
(***************************************************************************)
ProcStep(p) ==
    \/ MutexAtEnter(p) \/ MutexAt(p)
    \/ RLock(p) \/ Lock(p) \/ LockWait(p)
    \/ RUnlock(p) \/ Unlock(p)
    \/ CleanupEnter(p) \/ Cleanup(p)
    \/ /\ p \in Workers
       /\ \/ GetStat(p) \/ GetReadFile(p) \/ GetExpires(p) \/ GetRemove(p)
          \/ SetMkdirAll(p) \/ SetOpenFile(p) \/ SetTimestamp(p)
          \/ SetWriteT(p) \/ SetWriteVal(p)
    \/ /\ p = VacuumProc
       /\ \/ VacuumReadDir \/ VacuumLstat \/ VacuumDone
          \/ VacuumOpen \/ VacuumExpires \/ VacuumRemove

Fairness ==
    /\ \A p \in Procs : SF_vars(ProcStep(p))
    /\ WF_vars(Finalize)

NextLive ==
    \/ \E w \in Workers : GetCall(w, <<"a", "-", "b">>)
    \/ \E w \in Workers : SetCall(w, <<"a", "-", "b">>, <<3>>, 1)
    \/ VacuumTick
    \/ Moves

\* The base directory holds, at the path of the key, an expired entry or
\* the empty file of a Set that failed after OpenFile.
InitLive ==
    /\ InitProcs
    /\ \E e \in {File(PutUint64(1) \o <<3>>), File(<<>>)} :
          files = [p \in Paths |->
                     IF p = KeyPaths[<<"a", "-", "b">>] THEN e ELSE NoFile]
    /\ dirs = { Dir(p) : p \in { q \in Paths : files[q].kind # "none" } }

SpecLive == InitLive /\ [][NextLive]_vars /\ Fairness

(***************************************************************************)
(* The store from before its construction: the base path is missing, a     *)
(* regular file or a directory; callers can reach Get and Set only through *)
(* the store newFileCache returns, and then use it one at a time.          *)
(***************************************************************************)
InitNew ==
    /\ now = StartTicks
    /\ regMu = NoProc
    /\ lock = [n \in LockNames |-> NoHandle]
    /\ handle = [h \in HandleIds |-> ZeroLock]
    /\ pc = [p \in Procs |-> IF p = VacuumProc THEN "unborn" ELSE "idle"]
    /\ mu = [p \in Procs |-> NoHandle]
    /\ op = [w \in Workers |-> NoOp]
    /\ vac = IdleVac
    /\ lastSet = NoSet
    /\ \E b \in {"none", "file", "dir"} :
           fc = [base |-> b, result |-> "none", vacuums |-> 0]
    /\ \E p \in Paths, e \in ForeignEntries \cup {NoFile} :
           files = [q \in Paths |->
                      IF q = p /\ fc.base = "dir" THEN e ELSE NoFile]
    /\ dirs = { Dir(p) : p \in { q \in Paths : files[q].kind # "none" } }

NextNew ==
    \/ NewFileCache
    \/ NextSeq

SpecNew == InitNew /\ [][NextNew]_vars

(***************************************************************************)
(* Vocabulary of the properties.                                           *)
(***************************************************************************)
\* The entry holds a full 8-byte expiry.
HasHeader(entry) == entry.kind = "file" /\ Len(entry.data) >= 8
\* The expiry, in seconds, an entry's or a read's first 8 bytes store.
StoredExpiry(data) == Uint64(SubSeq(data, 1, 8))
\* The encoding a Set of val with the timestamp ts is to leave in the file.
Encoded(ts, val) == PutUint64(ts) \o val

GetLocked == {"Stat", "ReadFile", "Expires", "Remove", "RUnlock"}
SetLocked == {"MkdirAll", "OpenFile", "Timestamp", "WriteT", "WriteVal", "Unlock"}
VacuumLocked == {"Open", "Expires", "Remove", "Unlock"}
\* The worker is between acquiring and releasing its fileLock.
InLocked(w) ==
    \/ op[w].name = "Get" /\ pc[w] \in GetLocked
    \/ op[w].name = "Set" /\ pc[w] \in SetLocked
\* The worker has its handle and waits in RLock or Lock for a holder to go.
Waiting(w) ==
    \/ pc[w] = "RLock" /\ handle[mu[w]].writer
    \/ pc[w] = "Lock" /\ handle[mu[w]].writer
    \/ pc[w] = "LockWait" /\ handle[mu[w]].readers > 0
\* The step is one of process p.
StepOf(p) == pc'[p] # pc[p]

\* C1: a Get(k) that immediately follows a successful Set(k, p, ttl), with
\* nothing else done to k in between, returns exactly p as a hit, or a miss
\* once the expiry has passed.
C1_RoundTrip ==
    \A w \in Workers :
        (op[w].name = "Get" /\ op[w].after # NoSet /\ op[w].ret.kind # "none")
            => \/ op[w].ret = Ret("hit", op[w].after.val)
               \/ op[w].ret.kind = "miss"

\* C2: when Set(k, p, ttl) has written, the file of k holds exactly the
\* 8-byte expiry followed by p, whatever the file held before.
C2_OverwriteNoResidue ==
    \A w \in Workers :
        (op[w].name = "Set" /\ op[w].ret.kind = "ok")
            => files[KeyPaths[op[w].key]]
                 = File(Encoded(op[w].timestamp, op[w].val))

\* C3: every Get that returns a payload returns a payload some Set was
\* given, never bytes of two Sets mixed.
C3_NoMixture ==
    \A w \in Workers :
        (op[w].name = "Get" /\ op[w].ret.kind = "hit") => op[w].ret.data \in Payloads

\* C4: while the vacuum is between Lock and Unlock for the file that stores
\* a key, no Get or Set of that key is between its own lock and unlock.
C4_VacuumSerializes ==
    \A w \in Workers :
        ~ /\ pc[VacuumProc] \in VacuumLocked
          /\ InLocked(w)
          /\ vac.path = KeyPaths[op[w].key]

\* C5: the vacuum never removes a file whose stored expiry, at the moment
\* of the removal, is later than the current time.
C5_VacuumKeepsFresh ==
    [][(pc[VacuumProc] = "Remove" /\ StepOf(VacuumProc) /\ HasHeader(files[vac.path]))
          => ~(StoredExpiry(files[vac.path].data) * TicksPerSec > now)]_vars

\* C6 as stated: a Get that reads an entry whose stored expiry is at or
\* before the current time goes on to remove the file and report a miss.
C6_ExpiredAtOrBefore ==
    [][\A w \in Workers :
         (pc[w] = "Expires" /\ StepOf(w) /\ Len(op[w].b) >= 8
            /\ StoredExpiry(op[w].b) * TicksPerSec <= now)
           => pc'[w] = "Remove"]_vars

\* C6 amended: with one caller at a time, a Get that reads an entry whose
\* stored expiry is strictly before the current time never returns its
\* payload: it removes the file and reports a miss, and the file does not
\* exist when the Get returns; an entry whose expiry is the current time or
\* later is returned as a hit.
C6_LazyExpiry ==
    [][\A w \in Workers :
         LET path == KeyPaths[op[w].key]
             expired == StoredExpiry(op[w].b) * TicksPerSec < now
         IN  /\ (pc[w] = "Expires" /\ StepOf(w) /\ Len(op[w].b) >= 8)
                  => IF expired
                     THEN pc'[w] = "Remove" /\ op'[w].ret = NoRet
                     ELSE op'[w].ret = Ret("hit", SubSeq(op[w].b, 9, Len(op[w].b)))
             /\ (pc[w] = "Remove" /\ StepOf(w))
                  => files'[path] = NoFile /\ op'[w].ret = Ret("miss", <<>>)
             /\ (pc[w] = "CleanupBody" /\ StepOf(w) /\ op[w].name = "Get"
                   /\ Len(op[w].b) >= 8 /\ op[w].ret.kind = "miss")
                  => files'[path] = NoFile]_vars

\* A Get has read an expired entry with a full header, removed the file and
\* set its result to a miss.
C6_Witness ==
    \E w \in Workers :
        /\ op[w].name = "Get" /\ pc[w] = "RUnlock"
        /\ Len(op[w].b) >= 8
        /\ StoredExpiry(op[w].b) * TicksPerSec < now
        /\ op[w].ret.kind = "miss"
        /\ files[KeyPaths[op[w].key]] = NoFile

C8_ShortFileIsMiss ==
    \A w \in Workers :
        (op[w].name = "Get" /\ Len(op[w].b) < 8) => op[w].ret.kind \in {"none", "miss"}

\* C9: a Get(k) that finds no file, or a directory, at the path of k
\* returns a miss, creates no file and leaves every file as it was.
C9_MissOnAbsent ==
    [][\A w \in Workers :
         LET key == IF op[w].name = "Get" THEN op[w].key ELSE op'[w].key IN
         ((op[w].name = "Get" \/ op'[w].name = "Get") /\ StepOf(w)
             /\ files[KeyPaths[key]].kind \in {"none", "dir"})
           => /\ files' = files
              /\ dirs' = dirs
              /\ pc'[w] \notin {"ReadFile", "Expires", "Remove"}
              /\ pc[w] = "Stat" => op'[w].ret = Ret("miss", <<>>)
              /\ op'[w].ret.kind \in {"none", "miss"}]_vars

\* A Get has found a directory at the path of its key and set its result to
\* a miss.
C9_Witness ==
    \E w \in Workers :
        /\ op[w].name = "Get" /\ pc[w] = "RUnlock"
        /\ files[KeyPaths[op[w].key]] = DirEntry
        /\ op[w].ret = Ret("miss", <<>>)

\* C10: a Get or Set of a key never waits for a lock that a Get, a Set or
\* a vacuum step holds while working on the file of a different key.
C10_NoCrossKeyBlocking ==
    \A w \in Workers :
        Waiting(w)
          => /\ \A v \in Workers \ {w} :
                   (InLocked(v) /\ mu[v] = mu[w]) => op[v].key = op[w].key
             /\ (pc[VacuumProc] \in VacuumLocked /\ mu[VacuumProc] = mu[w])
                   => vac.path = KeyPaths[op[w].key]

\* C11: newFileCache fails when the base path is missing or is not a
\* directory, and then returns no store and starts no vacuum, at once or
\* later; when it succeeds the base path is a directory and exactly one
\* vacuum has been started.
C11_Construction ==
    /\ (fc.base # "dir" /\ fc.result # "none")
          => fc.result \in {"invalid cache path", "path must be a directory"}
    /\ fc.result # "ok"
          => /\ fc.vacuums = 0
             /\ pc[VacuumProc] = "unborn"
             /\ \A w \in Workers : pc[w] = "idle"
             /\ \A p \in Paths : files[p] = NoFile \/ fc.result = "none"
    /\ fc.result = "ok"
          => fc.base = "dir" /\ fc.vacuums = 1 /\ pc[VacuumProc] # "unborn"

\* newFileCache has refused a base path that is a regular file, time has
\* gone by, and no vacuum runs.
C11_Witness ==
    /\ fc.base = "file"
    /\ fc.result = "path must be a directory"
    /\ fc.vacuums = 0
    /\ now > StartTicks

\* The process holds the fileLock of the registry name n for reading.
HoldsRead(p, n) ==
    p \in Workers /\ op[p].name = "Get" /\ pc[p] \in GetLocked /\ op[p].key = n
\* The process holds the fileLock of the registry name n for writing.
HoldsWrite(p, n) ==
    \/ p \in Workers /\ op[p].name = "Set" /\ pc[p] \in SetLocked /\ op[p].key = n
    \/ p = VacuumProc /\ pc[p] \in VacuumLocked /\ Base(vac.path) = n
\* The process has obtained a handle from MutexAt and its release, cleanup
\* included, has not finished.
References(p, n) ==
    \/ HoldsRead(p, n) \/ HoldsWrite(p, n)
    \/ pc[p] \in {"RLock", "Lock", "LockWait", "Cleanup", "CleanupBody"}
          /\ NameOf(p) = n

\* C12: while one caller holds the lock of a path for writing no other
\* caller holds it for reading or for writing (readers may share it), and a
\* Lock or RLock that would break this does not return: it waits for the
\* holder's Unlock.
C12_ReadWriteExclusion ==
    \A n \in LockNames : \A p \in Procs : \A q \in Procs \ {p} :
        HoldsWrite(p, n) => ~HoldsWrite(q, n) /\ ~HoldsRead(q, n)

\* One Set holds the lock of its key for writing while the other worker's
\* Set on the same key has the same handle and waits in Lock.
C12_Witness ==
    \E p \in Workers : \E q \in Workers \ {p} :
        /\ HoldsWrite(p, op[p].key)
        /\ op[q].name = "Set" /\ op[q].key = op[p].key
        /\ pc[q] = "Lock" /\ mu[q] = mu[p]

\* C13: outside the critical sections of the registry mutex, a name has an
\* entry in the registry exactly when its handle's reference count is
\* positive; the count is the number of callers that obtained the handle
\* from MutexAt and have not finished their release; and all of them hold
\* the one handle the registry has for the name.
C13_RegistryInvariant ==
    regMu = NoProc =>
        /\ \A n \in LockNames :
              LET users == { p \in Procs : References(p, n) } IN
              /\ lock[n] # NoHandle <=> users # {}
              /\ lock[n] # NoHandle =>
                    /\ handle[lock[n]].ref = Cardinality(users)
                    /\ handle[lock[n]].ref > 0
                    /\ handle[lock[n]].path = n
              /\ \A p \in users : mu[p] = lock[n]
        /\ \A h \in HandleIds :
              handle[h].ref > 0 => lock[handle[h].path] = h

\* Two callers and the vacuum reference three handles, two of them sharing
\* one.
C13_Witness ==
    /\ regMu = NoProc
    /\ \E n \in LockNames :
          /\ lock[n] # NoHandle
          /\ handle[lock[n]].ref = 2
          /\ \E m \in LockNames \ {n} : lock[m] # NoHandle

\* C14: whenever every started acquire/release cycle has completed, on
\* every return path of Get, Set and a vacuum step, the registry has no
\* entries.
C14_RegistryConvergence ==
    (\A p \in Procs : \A n \in LockNames : ~References(p, n) /\ pc[p] # "MutexAtBody")
        => \A n \in LockNames : lock[n] = NoHandle

\* A Set has taken and released its lock and stored a file, every process
\* is back at rest and the registry is empty.
C14_Witness ==
    /\ \A w \in Workers : pc[w] = "idle"
    /\ pc[VacuumProc] = "Timer"
    /\ \E p \in Paths : files[p].kind = "file"
    /\ \A n \in LockNames : lock[n] = NoHandle

\* C15: a caller holds the registry mutex only inside the bookkeeping of
\* MutexAt and of cleanup: never while it waits for or holds a fileLock,
\* and never during file I/O.
C15_RegistryMutexScope ==
    \A p \in Procs :
        regMu = p =>
            /\ pc[p] \in {"MutexAtBody", "CleanupBody"}
            /\ \A n \in LockNames : ~HoldsRead(p, n) /\ ~HoldsWrite(p, n)

\* A caller is inside cleanup with the registry mutex while another caller
\* holds a fileLock and a third waits to enter MutexAt.
C15_Witness ==
    \E p \in Procs :
        /\ regMu = p /\ pc[p] = "CleanupBody"
        /\ \E q \in Procs \ {p} : pc[q] = "MutexAt"
        /\ \E q \in Procs \ {p} : \E n \in LockNames : HoldsWrite(q, n) \/ HoldsRead(q, n)

\* C16: a file from which the vacuum cannot read a full 8-byte header (0 to
\* 7 bytes long) is skipped: no step of the vacuum removes or changes it.
C16_VacuumSkipsShort ==
    [][\A p \in Paths :
         (StepOf(VacuumProc) /\ files[p].kind = "file" /\ Len(files[p].data) < 8)
             => files'[p] = files[p]]_vars

\* The vacuum's walk has listed the path, or the directory that holds it,
\* and has not visited it yet.
Unvisited(p) ==
    \/ \E i \in 2..Len(vac.names) : vac.names[i] = p
    \/ \E i \in 1..Len(vac.dirs) : vac.dirs[i] = Dir(p)

\* C17: a vacuum pass is never cut short by one bad entry: when a pass
\* ends, no regular file that the walk had listed, or whose directory it had
\* listed, is left unvisited.
C17_WalkNeverCutShort ==
    [][(pc[VacuumProc] # "Timer" /\ pc'[VacuumProc] = "Timer")
         => \A p \in Paths : files[p].kind = "file" => ~Unvisited(p)]_vars

\* C19: the only change a Get(k) makes to the store is the removal of the
\* file of k when that entry is expired: no step of a Get creates a file or
\* a directory, changes the bytes of a file, removes a file of k that does
\* not hold an expiry before now, or touches the file of another key.
C19_GetFrame ==
    [][\A w \in Workers :
         LET key == IF op[w].name = "Get" THEN op[w].key ELSE op'[w].key
             kp == KeyPaths[key]
         IN  ((op[w].name = "Get" \/ op'[w].name = "Get") /\ StepOf(w))
               => /\ dirs' = dirs
                  /\ \A p \in Paths \ {kp} : files'[p] = files[p]
                  /\ files'[kp] \in {files[kp], NoFile}
                  /\ files'[kp] # files[kp]
                        => /\ HasHeader(files[kp])
                           /\ Before(StoredExpiry(files[kp].data), now)]_vars

\* C20: the vacuum closes every file it opens before it releases the
\* file's lock: between files and after a pass it holds no file open.
C20_VacuumClosesFiles ==
    pc[VacuumProc] \in {"Timer", "Walk", "Cleanup", "CleanupBody"} => vac.open = 0

\* The process is inside a call of Get or Set, or inside the vacuum's
\* per-file step.
Started(p) ==
    IF p = VacuumProc THEN pc[p] \notin {"Timer", "Walk"} ELSE pc[p] # "idle"

\* C18: no state is reached in which the operations in progress all wait
\* on each other, and under fair scheduling every started Get, Set and
\* vacuum per-file step eventually returns, with its lock released and its
\* registry reference given back.
C18_NoStuckOperation ==
    /\ []((\E p \in Procs : Started(p))
            => (\E p \in Procs : Started(p) /\ ENABLED ProcStep(p))
                  \/ ENABLED Finalize)
    /\ \A p \in Procs :
          Started(p) ~> (~Started(p) /\ mu[p] = NoHandle
                            /\ \A n \in LockNames : ~References(p, n))

\* A Get holds the lock of the key for reading, the other worker's Set has
\* announced itself and waits for the reader to leave, and the vacuum waits
\* in Lock on the same handle.
C18_Witness ==
    \E r \in Workers : \E w \in Workers \ {r} :
        /\ HoldsRead(r, op[r].key)
        /\ op[w].name = "Set" /\ pc[w] = "LockWait" /\ mu[w] = mu[r]
        /\ pc[VacuumProc] = "Lock" /\ mu[VacuumProc] = mu[r]

====
